---- MODULE Spec2Model ----
(***************************************************************************)
(* Model of YouDownloader.py: tag detection (detect_video_type),           *)
(* resolution display (get_enhanced_resolution_info), bucketing            *)
(* (get_video_info), option-list assembly with ranking and dedup           *)
(* (display_format_options), and the session loop (run) with the choice    *)
(* prompt (get_user_choice) and create_download_options.                   *)
(*                                                                         *)
(* Python values: an optional value (dict key absent, or None) is the      *)
(* empty tuple, a present value v is the one-element tuple <<v>>.  For the *)
(* text keys, where dict.get(key, default) tells an absent key from a key  *)
(* that holds None, the stored None is the value Null.  Text is a TLA+     *)
(* string and `kw in text` is substring search.  The emoji that the        *)
(* program puts in front of its descriptions and tag displays are left     *)
(* out of the string literals; every other character is kept.  An          *)
(* exception is the name of its class; "" is normal completion.            *)
(***************************************************************************)
EXTENDS Integers, Sequences, FiniteSets, TLC

VARIABLES
    pc,             \* position of run(): "url", "fetching", "fetched", "options",
                    \* "confirm", "download", "again", "exit"
    info,           \* metadata returned by get_video_info (None when it failed)
    formats,        \* info['formats'], the raw descriptors
    video_formats,  \* video bucket (sorted in place by display_format_options)
    audio_formats,  \* audio bucket (sorted in place by display_format_options)
    in_video,       \* video bucket as it was passed to display_format_options
    in_audio,       \* audio bucket as it was passed to display_format_options
    options,        \* list returned by display_format_options
    video_lines,    \* per printed video line: res_display and special_display
    error,          \* exception caught in this iteration, in get_video_info or
                    \* in run ("" if none)
    choice,         \* text typed last at the choice prompt
    selected_option,\* options[choice - 1] once a choice was returned
    download_opts,  \* dict built by create_download_options
    confirm,        \* text typed at the confirmation prompt
    d_pc,           \* position of the detect_video_type / sort_key harness
    d_fmt,          \* descriptor given to detect_video_type
    d_info,         \* metadata given to detect_video_type
    video_type,     \* list returned by detect_video_type
    d_key,          \* tuple returned by sort_key
    d_res           \* value returned by get_enhanced_resolution_info

vars == <<pc, info, formats, video_formats, audio_formats, in_video, in_audio,
          options, video_lines, error, choice, selected_option, download_opts,
          confirm, d_pc, d_fmt, d_info, video_type, d_key, d_res>>

list_vars == <<info, formats, video_formats, audio_formats, in_video, in_audio,
               options, video_lines>>

prompt_vars == <<choice, selected_option, download_opts, confirm>>

session_vars == <<pc, list_vars, error, prompt_vars>>

detect_vars == <<d_pc, d_fmt, d_info, video_type, d_key, d_res>>

-----------------------------------------------------------------------------
(* Python values *)

None == <<>>

Some(v) == <<v>>

\* None stored under a text key (a pair: it differs from every <<v>>)
Null == <<"None", "None">>

\* dict.get(key, default) for a key that is absent
Get(v, default) == IF v = None THEN default ELSE v[1]

\* dict.get(key, default) as an optional value: the default for an absent
\* key, the stored value (None included) for a present one
GetOr(v, default) == IF v = None THEN Some(default) ELSE v

\* an optional text inside an f-string
Fmt(v) == IF v = Null THEN "None" ELSE v[1]

\* `x or 0` for an optional number
OrZero(v) == IF v = None THEN 0 ELSE v[1]

\* truthiness of an optional number: None and 0 are both false
Truthy(v) == v # None /\ v[1] # 0

\* str() of an optional number, as an f-string formats it
Str(v) == IF v = None THEN "None" ELSE ToString(v[1])

Range(s) == {s[i] : i \in 1..Len(s)}

\* a list built by a comprehension: its elements are computed once
AsList(s) == s \o <<>>

\* `kw in text` on strings
Contains(kw, text) ==
    \E i \in 1..(Len(text) - Len(kw) + 1) : SubSeq(text, i, i + Len(kw) - 1) = kw

UpperToLower ==
    [c \in {"A","B","C","D","E","F","G","H","I","J","K","L","M","N","O","P",
            "Q","R","S","T","U","V","W","X","Y","Z"} |->
        CASE c = "A" -> "a" [] c = "B" -> "b" [] c = "C" -> "c" [] c = "D" -> "d"
          [] c = "E" -> "e" [] c = "F" -> "f" [] c = "G" -> "g" [] c = "H" -> "h"
          [] c = "I" -> "i" [] c = "J" -> "j" [] c = "K" -> "k" [] c = "L" -> "l"
          [] c = "M" -> "m" [] c = "N" -> "n" [] c = "O" -> "o" [] c = "P" -> "p"
          [] c = "Q" -> "q" [] c = "R" -> "r" [] c = "S" -> "s" [] c = "T" -> "t"
          [] c = "U" -> "u" [] c = "V" -> "v" [] c = "W" -> "w" [] c = "X" -> "x"
          [] c = "Y" -> "y" [] c = "Z" -> "z"]

\* str.lower()
Lower(text) ==
    LET low[i \in 0..Len(text)] ==
            IF i = 0 THEN ""
            ELSE LET c == SubSeq(text, i, i)
                 IN  low[i - 1] \o (IF c \in DOMAIN UpperToLower
                                    THEN UpperToLower[c] ELSE c)
    IN  low[Len(text)]

\* '+'.join(list) and ' '.join(list)
Join(sep, s) ==
    LET j[i \in 0..Len(s)] ==
            IF i = 0 THEN ""
            ELSE IF i = 1 THEN s[1]
            ELSE j[i - 1] \o sep \o s[i]
    IN  j[Len(s)]

-----------------------------------------------------------------------------
(* detect_video_type *)

\* ordered dict: <<keyword, tag>> in insertion order
stereo_keywords ==
    << <<"3d", "3D">>,
       <<"stereoscopic", "3D">>,
       <<"stereo", "3D">>,
       <<"sbs", "SBS-3D">>,
       <<"side by side", "SBS-3D">>,
       <<"side-by-side", "SBS-3D">>,
       <<"top bottom", "TB-3D">>,
       <<"top-bottom", "TB-3D">>,
       <<"anaglyph", "Anaglyph-3D">>,
       <<"dual fisheye", "DualFisheye-3D">> >>

vr_keywords ==
    << <<"360", "360°">>,
       <<"vr", "VR">>,
       <<"virtual reality", "VR">>,
       <<"spherical", "360°">>,
       <<"equirectangular", "360°-EQR">> >>

vr180_keywords == <<"180", "vr180", "half sphere", "hemispherical">>

hdr_keywords ==
    <<"hdr", "hdr10", "hdr10+", "dolby vision", "high dynamic range",
      "rec2020", "bt2020">>

\* every keyword detect_video_type looks for in the title and description
MetaKeywords ==
    {stereo_keywords[i][1] : i \in 1..Len(stereo_keywords)}
        \cup {vr_keywords[i][1] : i \in 1..Len(vr_keywords)}
        \cup Range(vr180_keywords)

\* title and description are the same for every descriptor of a fetch: the
\* keywords found in each, searched once
MetaHits(inf) ==
    LET title       == IF inf # None THEN Lower(Get(inf[1].title, "")) ELSE ""
        description == IF inf # None THEN Lower(Get(inf[1].description, "")) ELSE ""
    IN  [title       |-> {kw \in MetaKeywords : Contains(kw, title)},
         description |-> {kw \in MetaKeywords : Contains(kw, description)}]

\* keyword in format_note or keyword in title or keyword in description
InTexts(keyword, format_note, meta) ==
    \/ Contains(keyword, format_note)
    \/ keyword \in meta.title
    \/ keyword \in meta.description

\* variant of StereoScan: the format note is searched through the whole
\* keyword list before the title, and the title before the description
StereoScanTextFirst(format_note, meta) ==
    LET noteHits == {i \in 1..Len(stereo_keywords) : Contains(stereo_keywords[i][1], format_note)}
        titleHits == {i \in 1..Len(stereo_keywords) : stereo_keywords[i][1] \in meta.title}
        descHits == {i \in 1..Len(stereo_keywords) : stereo_keywords[i][1] \in meta.description}
        firstOf(hits) == CHOOSE i \in hits : \A j \in hits : i <= j
    IN  IF noteHits # {} THEN <<stereo_keywords[firstOf(noteHits)][2]>>
        ELSE IF titleHits # {} THEN <<stereo_keywords[firstOf(titleHits)][2]>>
        ELSE IF descHits # {} THEN <<stereo_keywords[firstOf(descHits)][2]>>
        ELSE <<>>

\* first loop: append the tag of the first keyword that matches, then break
StereoScan(format_note, meta) ==
    LET hits == {i \in 1..Len(stereo_keywords) :
                    InTexts(stereo_keywords[i][1], format_note, meta)}
    IN  IF hits = {} THEN <<>>
        ELSE LET first == CHOOSE i \in hits : \A j \in hits : i <= j
             IN  <<stereo_keywords[first][2]>>

\* second loop: every matching keyword appends its tag unless already there
VrScan(acc, format_note, meta) ==
    LET step[i \in 0..Len(vr_keywords)] ==
            IF i = 0 THEN acc
            ELSE LET prev == step[i - 1]
                 IN  IF /\ InTexts(vr_keywords[i][1], format_note, meta)
                        /\ vr_keywords[i][2] \notin Range(prev)
                     THEN Append(prev, vr_keywords[i][2])
                     ELSE prev
    IN  step[Len(vr_keywords)]

\* third loop: '180°' is appended once if any 180 keyword matches
Vr180Scan(acc, format_note, meta) ==
    LET step[i \in 0..Len(vr180_keywords)] ==
            IF i = 0 THEN acc
            ELSE LET prev == step[i - 1]
                 IN  IF /\ InTexts(vr180_keywords[i], format_note, meta)
                        /\ "180°" \notin Range(prev)
                     THEN Append(prev, "180°")
                     ELSE prev
    IN  step[Len(vr180_keywords)]

\* fourth loop: HDR keywords are looked up in format_note and format_id only
HdrScan(acc, format_note, format_id) ==
    LET step[i \in 0..Len(hdr_keywords)] ==
            IF i = 0 THEN acc
            ELSE LET prev == step[i - 1]
                 IN  IF /\ \/ Contains(hdr_keywords[i], format_note)
                           \/ Contains(hdr_keywords[i], format_id)
                        /\ "HDR" \notin Range(prev)
                     THEN Append(prev, "HDR")
                     ELSE prev
    IN  step[Len(hdr_keywords)]

\* any('3D' in vtype for vtype in video_type)
AnyThreeD(types) == \E i \in 1..Len(types) : Contains("3D", types[i])

\* variant of CombineTypes: the combined tag replaces the whole list
CombineTypesDropRest(types) ==
    IF AnyThreeD(types) /\ "180°" \in Range(types)
    THEN <<"3D-180°-VR">>
    ELSE types

\* the combination step that closes detect_video_type
CombineTypes(types) ==
    IF AnyThreeD(types) /\ "180°" \in Range(types)
    THEN <<"3D-180°-VR">> \o
         SelectSeq(types, LAMBDA vtype : ~Contains("3D", vtype) /\ vtype # "180°")
    ELSE types

\* the .lower() calls that open detect_video_type: None has no lower()
DetectRaises(fmt, inf) ==
    \/ fmt.format_note = Null
    \/ inf # None /\ (inf[1].title = Null \/ inf[1].description = Null)

\* the body of detect_video_type, given the keywords found in the title and
\* in the description
DetectTypes(fmt, meta) ==
    LET format_note == Lower(Get(fmt.format_note, ""))
        format_id   == Lower(fmt.format_id)
        t1 == StereoScan(format_note, meta)
        t2 == VrScan(t1, format_note, meta)
        t3 == Vr180Scan(t2, format_note, meta)
        t4 == HdrScan(t3, format_note, format_id)
    IN  CombineTypes(t4)

detect_video_type(fmt, inf) == DetectTypes(fmt, MetaHits(inf))

-----------------------------------------------------------------------------
(* get_enhanced_resolution_info *)

\* variant of get_enhanced_resolution_info: the tier is shown as soon as the
\* height is known
ResolutionInfoHeightOnly(fmt) ==
    LET height == fmt.height
    IN  IF Truthy(height)
        THEN LET h == height[1]
                 base_res == IF h >= 4320 THEN "8K"
                             ELSE IF h >= 2160 THEN "4K"
                             ELSE IF h >= 1440 THEN "2K"
                             ELSE IF h >= 1080 THEN "1080p"
                             ELSE IF h >= 720 THEN "720p"
                             ELSE ToString(h) \o "p"
             IN  Some(base_res \o " (" \o Str(fmt.width) \o "x" \o ToString(h) \o ")")
        ELSE GetOr(fmt.resolution, "Unknown resolution")

\* the value returned: a text, or None when the resolution key holds None
get_enhanced_resolution_info(fmt) ==
    LET height == fmt.height
        width  == fmt.width
    IN  IF Truthy(height) /\ Truthy(width)
        THEN LET h == height[1]
                 base_res == IF h >= 4320 THEN "8K"
                             ELSE IF h >= 2160 THEN "4K"
                             ELSE IF h >= 1440 THEN "2K"
                             ELSE IF h >= 1080 THEN "1080p"
                             ELSE IF h >= 720 THEN "720p"
                             ELSE ToString(h) \o "p"
             IN  Some(base_res \o " (" \o ToString(width[1]) \o "x" \o ToString(h) \o ")")
        ELSE GetOr(fmt.resolution, "Unknown resolution")

-----------------------------------------------------------------------------
(* get_video_info: bucketing of info['formats'] *)

\* the dict appended to video_formats for a muxed descriptor
MuxedEntry(fmt, video_types) ==
    [format_id   |-> fmt.format_id,
     ext         |-> fmt.ext,
     resolution  |-> GetOr(fmt.resolution, "unknown"),
     height      |-> fmt.height,
     width       |-> fmt.width,
     filesize    |-> fmt.filesize,
     vcodec      |-> GetOr(fmt.vcodec, "unknown"),
     acodec      |-> GetOr(fmt.acodec, "unknown"),
     fps         |-> fmt.fps,
     vbr         |-> fmt.vbr,
     abr         |-> fmt.abr,
     type        |-> "video+audio",
     video_types |-> video_types,
     format_note |-> Get(fmt.format_note, "")]

\* the dict appended to video_formats for a video-only descriptor
VideoOnlyEntry(fmt, video_types) ==
    [format_id   |-> fmt.format_id,
     ext         |-> fmt.ext,
     resolution  |-> GetOr(fmt.resolution, "unknown"),
     height      |-> fmt.height,
     width       |-> fmt.width,
     filesize    |-> fmt.filesize,
     vcodec      |-> GetOr(fmt.vcodec, "unknown"),
     fps         |-> fmt.fps,
     vbr         |-> fmt.vbr,
     type        |-> "video_only",
     video_types |-> video_types,
     format_note |-> Get(fmt.format_note, "")]

\* the dict appended to audio_formats
AudioEntry(fmt) ==
    [format_id |-> fmt.format_id,
     ext       |-> fmt.ext,
     abr       |-> fmt.abr,
     filesize  |-> fmt.filesize,
     acodec    |-> GetOr(fmt.acodec, "unknown"),
     type      |-> "audio"]

\* variant of BucketOf: the last branch is an else, so a descriptor without
\* codecs goes to the audio bucket
BucketOfElseAudio(fmt) ==
    IF fmt.vcodec # Some("none") /\ fmt.acodec # Some("none") THEN "muxed"
    ELSE IF fmt.vcodec # Some("none") /\ fmt.acodec = Some("none") THEN "video_only"
    ELSE "audio"

\* the if/elif chain on the codecs; fmt.get('vcodec') of an absent key is
\* None, which differs from 'none'
BucketOf(fmt) ==
    IF fmt.vcodec # Some("none") /\ fmt.acodec # Some("none") THEN "muxed"
    ELSE IF fmt.vcodec # Some("none") /\ fmt.acodec = Some("none") THEN "video_only"
    ELSE IF fmt.acodec # Some("none") /\ fmt.vcodec = Some("none") THEN "audio"
    ELSE "dropped"

\* the loop over formats; the result is <<video_formats, audio_formats>>
Buckets(fmts, inf) ==
    LET meta == MetaHits(inf)
        step[i \in 0..Len(fmts)] ==
            IF i = 0 THEN <<<<>>, <<>>>>
            ELSE LET fmt == fmts[i]
                     video_types == DetectTypes(fmt, meta)
                     prev == step[i - 1]
                     b == BucketOf(fmt)
                 IN  IF b = "muxed"
                     THEN <<Append(prev[1], MuxedEntry(fmt, video_types)), prev[2]>>
                     ELSE IF b = "video_only"
                     THEN <<Append(prev[1], VideoOnlyEntry(fmt, video_types)), prev[2]>>
                     ELSE IF b = "audio"
                     THEN <<prev[1], Append(prev[2], AudioEntry(fmt))>>
                     ELSE prev
    IN  step[Len(fmts)]

\* get_video_info once extract_info has returned inf and its formats: the
\* tuple returned, and the exception the try block caught
get_video_info(inf, fmts) ==
    IF inf = None
    THEN [info |-> None, video_formats |-> <<>>, audio_formats |-> <<>>, error |-> ""]
    ELSE IF \E i \in 1..Len(fmts) : DetectRaises(fmts[i], inf)
    THEN [info |-> None, video_formats |-> <<>>, audio_formats |-> <<>>,
          error |-> "AttributeError"]
    ELSE LET b == Buckets(fmts, inf)
         IN  [info |-> inf, video_formats |-> b[1], audio_formats |-> b[2], error |-> ""]

-----------------------------------------------------------------------------
(* list.sort(key=..., reverse=True): stable, descending *)

\* tuple comparison a > b on the 4-tuples sort_key returns
TupleGT(a, b) ==
    \E k \in 1..4 : a[k] > b[k] /\ \A j \in 1..(k - 1) : a[j] = b[j]

\* variant of InsertByAbr: x goes in front of the elements of equal key
\* (an ascending sort that is reversed afterwards)
InsertByAbrTiesReversed(sorted, x) ==
    LET n == Cardinality({j \in 1..Len(sorted) : OrZero(sorted[j].abr) > OrZero(x.abr)})
    IN  SubSeq(sorted, 1, n) \o <<x>> \o SubSeq(sorted, n + 1, Len(sorted))

\* x goes behind every element whose key is not smaller than its own
InsertByAbr(sorted, x) ==
    LET n == Cardinality({j \in 1..Len(sorted) : OrZero(sorted[j].abr) >= OrZero(x.abr)})
    IN  SubSeq(sorted, 1, n) \o <<x>> \o SubSeq(sorted, n + 1, Len(sorted))

\* audio_formats.sort(key=lambda x: x.get('abr') or 0, reverse=True)
SortAudio(bucket) ==
    LET s[i \in 0..Len(bucket)] ==
            IF i = 0 THEN <<>> ELSE InsertByAbr(s[i - 1], bucket[i])
    IN  s[Len(bucket)]

\* the special_priority part of sort_key
special_priority(video_types) ==
    IF video_types # <<>>
    THEN IF "SBS-3D" \in Range(video_types) /\ "180°" \in Range(video_types) THEN 2000
         ELSE IF "3D-180°-VR" \in Range(video_types) THEN 1800
         ELSE IF "SBS-3D" \in Range(video_types) THEN 1500
         ELSE IF "HDR" \in Range(video_types) THEN 1000
         ELSE IF "360°" \in Range(video_types) \/ "VR" \in Range(video_types) THEN 500
         ELSE IF AnyThreeD(video_types) THEN 300
         ELSE IF "180°" \in Range(video_types) THEN 200
         ELSE 0
    ELSE 0

sort_key(fmt) ==
    <<special_priority(fmt.video_types), OrZero(fmt.height), OrZero(fmt.fps),
      OrZero(fmt.vbr)>>

\* variant of InsertBySortKey: x goes in front of the elements of equal key
InsertBySortKeyTiesReversed(sorted, x) ==
    LET n == Cardinality({j \in 1..Len(sorted) : TupleGT(sorted[j].key, x.key)})
    IN  SubSeq(sorted, 1, n) \o <<x>> \o SubSeq(sorted, n + 1, Len(sorted))

\* x goes behind every element whose key is not smaller than its own; the
\* elements carry the key that sort computed for them
InsertBySortKey(sorted, x) ==
    LET n == Cardinality({j \in 1..Len(sorted) : ~TupleGT(x.key, sorted[j].key)})
    IN  SubSeq(sorted, 1, n) \o <<x>> \o SubSeq(sorted, n + 1, Len(sorted))

\* video_formats.sort(key=sort_key, reverse=True): the key of each element is
\* computed once
SortVideo(bucket) ==
    LET keyed == AsList([i \in 1..Len(bucket) |->
                            [key |-> sort_key(bucket[i]), fmt |-> bucket[i]]])
        s[i \in 0..Len(bucket)] ==
            IF i = 0 THEN <<>> ELSE InsertBySortKey(s[i - 1], keyed[i])
        sorted == s[Len(bucket)]
    IN  AsList([i \in 1..Len(bucket) |-> sorted[i].fmt])

-----------------------------------------------------------------------------
(* display_format_options *)

\* repr() of a str, of an optional number and of a list of str
ReprStr(text) == "'" \o text \o "'"

\* repr() of an optional text
ReprOpt(v) == IF v = Null THEN "None" ELSE ReprStr(v[1])

ReprList(s) == "[" \o Join(", ", [i \in 1..Len(s) |-> ReprStr(s[i])]) \o "]"

\* repr() of one dict of video_formats, keys in insertion order
ReprVideo(fmt) ==
    "{'format_id': " \o ReprStr(fmt.format_id)
    \o ", 'ext': " \o ReprStr(fmt.ext)
    \o ", 'resolution': " \o ReprOpt(fmt.resolution)
    \o ", 'height': " \o Str(fmt.height)
    \o ", 'width': " \o Str(fmt.width)
    \o ", 'filesize': " \o Str(fmt.filesize)
    \o ", 'vcodec': " \o ReprOpt(fmt.vcodec)
    \o (IF fmt.type = "video+audio"
        THEN ", 'acodec': " \o ReprOpt(fmt.acodec) ELSE "")
    \o ", 'fps': " \o Str(fmt.fps)
    \o ", 'vbr': " \o Str(fmt.vbr)
    \o (IF fmt.type = "video+audio" THEN ", 'abr': " \o Str(fmt.abr) ELSE "")
    \o ", 'type': " \o ReprStr(fmt.type)
    \o ", 'video_types': " \o ReprList(fmt.video_types)
    \o ", 'format_note': " \o ReprStr(fmt.format_note)
    \o "}"

\* str(video_formats)
StrOfFormats(bucket) ==
    "[" \o Join(", ", [i \in 1..Len(bucket) |-> ReprVideo(bucket[i])]) \o "]"

vr_indicators == <<"360", "vr", "180", "3d", "stereoscopic", "virtual reality">>

\* title and description as display_format_options lower-cases them
TitleOf(inf) == Lower(Get(inf[1].title, ""))

DescriptionOf(inf) == Lower(Get(inf[1].description, ""))

is_vr_content(inf) ==
    /\ inf # None
    /\ \E i \in 1..Len(vr_indicators) :
          \/ Contains(vr_indicators[i], TitleOf(inf))
          \/ Contains(vr_indicators[i], DescriptionOf(inf))

has_3d_180(inf) ==
    \E text \in {TitleOf(inf), DescriptionOf(inf)} :
        Contains("3d", text) /\ Contains("180", text)

SbsIn(text) ==
    \/ Contains("sbs", text)
    \/ Contains("side by side", text)
    \/ Contains("side-by-side", text)

has_sbs(inf, bucket) ==
    \/ SbsIn(TitleOf(inf))
    \/ SbsIn(DescriptionOf(inf))
    \/ SbsIn(StrOfFormats(bucket))

\* the options of the VR/3D section, numbered from option_num
VrSpecialOptions(option_num, inf, bucket) ==
    IF is_vr_content(inf)
    THEN LET first == IF has_3d_180(inf) \/ has_sbs(inf, bucket)
                      THEN << [num |-> option_num,
                               description |-> "Best 3D 180° VR (Side-by-Side MKV)",
                               format |-> "bestvideo+bestaudio/best",
                               ext |-> "mkv",
                               type |-> "3d_180_sbs_video"] >>
                      ELSE <<>>
             n == option_num + Len(first)
         IN  first \o
             << [num |-> n,
                 description |-> "Best 360° VR Video (MKV)",
                 format |-> "bestvideo+bestaudio/best",
                 ext |-> "mkv",
                 type |-> "vr_360_video"],
                [num |-> n + 1,
                 description |-> "Best 180° VR Video (MKV)",
                 format |-> "bestvideo+bestaudio/best",
                 ext |-> "mkv",
                 type |-> "vr_180_video"],
                [num |-> n + 2,
                 description |-> "Best 3D Stereoscopic Video (MKV)",
                 format |-> "bestvideo+bestaudio/best",
                 ext |-> "mkv",
                 type |-> "3d_video"] >>
    ELSE <<>>

\* the three options of the standard section, numbered from option_num
QuickOptions(option_num) ==
    << [num |-> option_num,
        description |-> "Best Quality Video (MKV - Supports 4K/8K/HDR)",
        format |-> "bestvideo+bestaudio/best",
        ext |-> "mkv",
        type |-> "quick_video_mkv"],
       [num |-> option_num + 1,
        description |-> "Best Quality Video (MP4 - More Compatible)",
        format |-> "bestvideo[ext=mp4]+bestaudio[ext=m4a]/best[ext=mp4]/best",
        ext |-> "mp4",
        type |-> "quick_video_mp4"],
       [num |-> option_num + 2,
        description |-> "Best Quality Audio (MP3 320kbps)",
        format |-> "bestaudio/best",
        ext |-> "mp3",
        type |-> "quick_audio"] >>

\* key = f"{fmt['ext']}_{fmt.get('abr', 0)}"; the bucket dict always has 'abr'
AudioKey(fmt) == fmt.ext \o "_" \o Str(fmt.abr)

\* variant of AudioLoop: option_num is incremented for every descriptor,
\* also for one whose key was displayed already
AudioLoopCountsEvery(option_num, sorted) ==
    LET step[i \in 0..Len(sorted)] ==
            IF i = 0
            THEN [displayed_audio |-> {}, out |-> <<>>, option_num |-> option_num]
            ELSE LET prev == step[i - 1]
                     fmt  == sorted[i]
                     key  == fmt.ext \o "_" \o Str(fmt.abr)
                 IN  IF key \notin prev.displayed_audio
                     THEN [displayed_audio |-> prev.displayed_audio \cup {key},
                           out |-> Append(prev.out,
                                          [num    |-> prev.option_num,
                                           format |-> fmt.format_id,
                                           ext    |-> fmt.ext,
                                           type   |-> "audio",
                                           info   |-> fmt]),
                           option_num |-> prev.option_num + 1]
                     ELSE [prev EXCEPT !.option_num = prev.option_num + 1]
    IN  step[Len(sorted)]

\* the loop over the sorted audio bucket; out are the options appended and
\* option_num the counter as the loop leaves it
AudioLoop(option_num, sorted) ==
    LET step[i \in 0..Len(sorted)] ==
            IF i = 0
            THEN [displayed_audio |-> {}, out |-> <<>>, option_num |-> option_num]
            ELSE LET prev == step[i - 1]
                     fmt  == sorted[i]
                     key  == AudioKey(fmt)
                 IN  IF key \notin prev.displayed_audio
                     THEN [displayed_audio |-> prev.displayed_audio \cup {key},
                           out |-> Append(prev.out,
                                          [num    |-> prev.option_num,
                                           format |-> fmt.format_id,
                                           ext    |-> fmt.ext,
                                           type   |-> "audio",
                                           info   |-> fmt]),
                           option_num |-> prev.option_num + 1]
                     ELSE prev
    IN  step[Len(sorted)]

\* variant of VideoKey: the format id is part of the key
VideoKeyWithId(fmt) ==
    LET vcodec == Get(fmt.vcodec, "unknown")
    IN  fmt.format_id \o "_" \o fmt.ext \o "_" \o Str(fmt.height) \o "_"
        \o Str(fmt.fps) \o "_"
        \o SubSeq(vcodec, 1, IF Len(vcodec) < 10 THEN Len(vcodec) ELSE 10)
        \o "_" \o Join("+", fmt.video_types)

\* key = f"{ext}_{height}_{fps}_{vcodec[:10]}_{'+'.join(video_types)}"
VideoKey(fmt) ==
    LET vcodec == Get(fmt.vcodec, "unknown")
    IN  fmt.ext \o "_" \o Str(fmt.height) \o "_" \o Str(fmt.fps) \o "_"
        \o SubSeq(vcodec, 1, IF Len(vcodec) < 10 THEN Len(vcodec) ELSE 10)
        \o "_" \o Join("+", fmt.video_types)

\* the display text of one tag (emoji prefix left out)
SpecialTag(vtype) ==
    IF vtype = "3D-180°-VR" THEN "3D-180°-VR"
    ELSE IF vtype = "SBS-3D" THEN "SBS-3D"
    ELSE IF vtype = "TB-3D" THEN "TB-3D"
    ELSE IF vtype = "DualFisheye-3D" THEN "DualFish-3D"
    ELSE IF vtype = "360°-EQR" THEN "360°-EQR"
    ELSE IF vtype = "360°" THEN "360°"
    ELSE IF vtype = "VR" THEN "VR"
    ELSE IF vtype = "3D" THEN "3D"
    ELSE IF vtype = "180°" THEN "180°VR"
    ELSE IF vtype = "HDR" THEN "HDR"
    ELSE vtype

\* special_display of a printed video line
SpecialDisplay(fmt) ==
    LET special_tags == [i \in 1..Len(fmt.video_types) |-> SpecialTag(fmt.video_types[i])]
        joined == Join(" ", special_tags)
    IN  IF joined # "" THEN " " \o joined ELSE ""

\* the loop over the sorted video bucket; out are the options appended and
\* lines the res_display and special_display of the lines printed.  Slicing
\* None raises TypeError: the vcodec in the key of every descriptor, the
\* acodec in the line of a muxed descriptor that is printed
VideoLoop(option_num, sorted) ==
    LET step[i \in 0..Len(sorted)] ==
            IF i = 0
            THEN [displayed_video |-> {}, out |-> <<>>, lines |-> <<>>,
                  option_num |-> option_num, error |-> ""]
            ELSE LET prev == step[i - 1]
                     fmt  == sorted[i]
                     key  == VideoKey(fmt)
                 IN  IF prev.error # "" THEN prev
                     ELSE IF fmt.vcodec = Null
                     THEN [prev EXCEPT !.error = "TypeError"]
                     ELSE IF key \notin prev.displayed_video
                        /\ Cardinality(prev.displayed_video) < 20
                     THEN IF fmt.type = "video+audio" /\ fmt.acodec = Null
                          THEN [prev EXCEPT !.error = "TypeError"]
                          ELSE
                          [displayed_video |-> prev.displayed_video \cup {key},
                           out |-> Append(prev.out,
                                          [num    |-> prev.option_num,
                                           format |-> fmt.format_id,
                                           ext    |-> fmt.ext,
                                           type   |-> "video",
                                           info   |-> fmt]),
                           lines |-> Append(prev.lines,
                                            [num |-> prev.option_num,
                                             res_display |-> Fmt(get_enhanced_resolution_info(fmt)),
                                             special_display |-> SpecialDisplay(fmt)]),
                           option_num |-> prev.option_num + 1,
                           error |-> ""]
                     ELSE prev
    IN  step[Len(sorted)]

\* title = info.get('title', '').lower() and the same for the description:
\* None has no lower()
MetaRaises(inf) ==
    inf # None /\ (inf[1].title = Null \/ inf[1].description = Null)

\* what display_format_options hands back when an exception leaves it
Failed(exception) ==
    [options |-> <<>>, audio_formats |-> <<>>, video_formats |-> <<>>,
     video_lines |-> <<>>, error |-> exception]

\* variant of display_format_options: the video section comes before the
\* audio section
DisplayVideoBeforeAudio(v_formats, a_formats, inf) ==
    IF MetaRaises(inf) THEN Failed("AttributeError")
    ELSE
    LET vr      == VrSpecialOptions(1, inf, v_formats)
        quick   == QuickOptions(1 + Len(vr))
        v_sorted == SortVideo(v_formats)
        video   == VideoLoop(1 + Len(vr) + Len(quick), v_sorted)
        a_sorted == SortAudio(a_formats)
        audio   == AudioLoop(video.option_num, a_sorted)
    IN  IF video.error # "" THEN Failed(video.error)
        ELSE [options |-> vr \o quick \o video.out \o audio.out,
              audio_formats |-> a_sorted,
              video_formats |-> v_sorted,
              video_lines |-> video.lines,
              error |-> ""]

\* the whole of display_format_options: the list returned, the two buckets
\* as the in-place sorts leave them, the video lines printed, and the
\* exception that left it
display_format_options(v_formats, a_formats, inf) ==
    IF MetaRaises(inf) THEN Failed("AttributeError")
    ELSE
    LET vr      == VrSpecialOptions(1, inf, v_formats)
        quick   == QuickOptions(1 + Len(vr))
        a_sorted == SortAudio(a_formats)
        audio   == AudioLoop(1 + Len(vr) + Len(quick), a_sorted)
        v_sorted == SortVideo(v_formats)
        video   == VideoLoop(audio.option_num, v_sorted)
    IN  IF video.error # "" THEN Failed(video.error)
        ELSE [options |-> vr \o quick \o audio.out \o video.out,
              audio_formats |-> a_sorted,
              video_formats |-> v_sorted,
              video_lines |-> video.lines,
              error |-> ""]

-----------------------------------------------------------------------------
(* get_user_choice, create_download_options and the prompts of run() *)

\* str.strip(); the only white space typed is the blank
Strip(text) ==
    LET solid == {i \in 1..Len(text) : SubSeq(text, i, i) # " "}
    IN  IF solid = {} THEN ""
        ELSE SubSeq(text, CHOOSE i \in solid : \A j \in solid : i <= j,
                          CHOOSE i \in solid : \A j \in solid : j <= i)

DigitValue ==
    [c \in {"0", "1", "2", "3", "4", "5", "6", "7", "8", "9"} |->
        CASE c = "0" -> 0 [] c = "1" -> 1 [] c = "2" -> 2 [] c = "3" -> 3
          [] c = "4" -> 4 [] c = "5" -> 5 [] c = "6" -> 6 [] c = "7" -> 7
          [] c = "8" -> 8 [] c = "9" -> 9]

\* int(text) of a stripped text: an optional sign and decimal digits; None
\* stands for ValueError
ParseInt(text) ==
    LET sign   == IF Len(text) > 0 /\ SubSeq(text, 1, 1) \in {"+", "-"}
                  THEN SubSeq(text, 1, 1) ELSE ""
        digits == SubSeq(text, Len(sign) + 1, Len(text))
        val[i \in 0..Len(digits)] ==
            IF i = 0 THEN 0
            ELSE 10 * val[i - 1] + DigitValue[SubSeq(digits, i, i)]
    IN  IF \/ Len(digits) = 0
           \/ \E i \in 1..Len(digits) : SubSeq(digits, i, i) \notin DOMAIN DigitValue
        THEN None
        ELSE Some(IF sign = "-" THEN 0 - val[Len(digits)] ELSE val[Len(digits)])

\* one round of the loop of get_user_choice on the text typed: the number
\* returned, or None when the prompt comes again
get_user_choice(text, max_options) ==
    LET stripped   == Strip(text)
        choice_num == ParseInt(stripped)
    IN  IF stripped = "" THEN None
        ELSE IF choice_num = None THEN None
        ELSE IF choice_num[1] = 0 THEN Some(0)
        ELSE IF 1 <= choice_num[1] /\ choice_num[1] <= max_options THEN choice_num
        ELSE None

\* variant of IsConfirmed: everything but a plain no starts the download
IsConfirmedUnlessNo(text) == Lower(Strip(text)) \notin {"n", "no"}

\* confirm in ['', 'y', 'yes'] for confirm = input(...).strip().lower()
IsConfirmed(text) == Lower(Strip(text)) \in {"", "y", "yes"}

\* the dict create_download_options returns; a key that was not set is None
DownloadOptions(format, merge_output_format, writeinfojson, postprocessors) ==
    [outtmpl             |-> "downloads/%(title)s.%(ext)s",
     ignoreerrors        |-> FALSE,
     format              |-> format,
     merge_output_format |-> merge_output_format,
     writeinfojson       |-> writeinfojson,
     postprocessors      |-> postprocessors]

\* variant of MergeContainer: mp4 whatever the source container
MergeContainerMp4(ext) == "mp4"

\* 'mkv' if selected_option['ext'] in ['webm', 'mkv'] else 'mp4'
MergeContainer(ext) == IF ext \in {"webm", "mkv"} THEN "mkv" ELSE "mp4"

create_download_options(selected) ==
    IF selected.type = "quick_video_mkv"
    THEN DownloadOptions("bestvideo+bestaudio/best", Some("mkv"), None, None)
    ELSE IF selected.type = "quick_video_mp4"
    THEN DownloadOptions("bestvideo[ext=mp4]+bestaudio[ext=m4a]/best[ext=mp4]/best",
                         Some("mp4"), None, None)
    ELSE IF selected.type = "vr_video"
    THEN DownloadOptions("bestvideo+bestaudio/best", Some("mkv"), Some(TRUE), None)
    ELSE IF selected.type = "3d_video"
    THEN DownloadOptions("bestvideo+bestaudio/best", Some("mkv"), Some(TRUE), None)
    ELSE IF selected.type = "quick_audio"
    THEN DownloadOptions("bestaudio/best", None, None,
                         Some(<<[key |-> "FFmpegExtractAudio",
                                 preferredcodec |-> "mp3",
                                 preferredquality |-> "320"]>>))
    ELSE IF selected.type \in {"video", "video_only"}
    THEN IF selected.info.type = "video_only"
         THEN DownloadOptions(selected.format \o "+bestaudio/best",
                              Some(MergeContainer(selected.ext)), None, None)
         ELSE DownloadOptions(selected.format, None, None, None)
    ELSE DownloadOptions(selected.format, None, None, None)

-----------------------------------------------------------------------------
(* Inputs: what ydl.extract_info can hand to get_video_info *)

MaxFormats == 3

PadLen == 20

MaxTail == 2

AudioPadLen == 22

MaxAudioTail == 1

RawFormat(format_id, ext, format_note, height, width, vcodec, acodec, fps, vbr, abr) ==
    [format_id   |-> format_id,
     ext         |-> ext,
     format_note |-> format_note,
     resolution  |-> None,
     height      |-> height,
     width       |-> width,
     filesize    |-> None,
     vcodec      |-> vcodec,
     acodec      |-> acodec,
     fps         |-> fps,
     vbr         |-> vbr,
     abr         |-> abr]

\* the muxed 2160p descriptor of the end-to-end scenario (no width)
FmtMuxed4K ==
    RawFormat("313", "mp4", Some(""), Some(2160), None,
              Some("vp9"), Some("opus"), Some(60), None, None)

\* video only, 'sbs' in the note and 'hdr' in the format id
FmtSbsHdr ==
    RawFormat("hdr-337", "webm", Some("sbs"), Some(2160), Some(3840),
              Some("vp9.2"), Some("none"), Some(60), Some(12000), None)

FmtAv1 ==
    RawFormat("399", "mp4", Some("1080p"), Some(1080), Some(1920),
              Some("av01.0.08M.08"), Some("none"), Some(30), Some(4000), None)

\* equal to FmtAv1 in every ranking field; the codec differs behind the
\* tenth character only
FmtAv1Twin ==
    RawFormat("399-1", "mp4", Some("1080p"), Some(1080), Some(1920),
              Some("av01.0.08M.10"), Some("none"), Some(30), Some(4000), None)

\* the dedup key of FmtAv1 with a lower video bitrate
FmtAv1Low ==
    RawFormat("398", "mp4", Some("1080p"), Some(1080), Some(1920),
              Some("av01.0.08M.08"), Some("none"), Some(30), Some(2000), None)

\* every optional key absent: both codecs count as present
FmtBare ==
    RawFormat("0", "mp4", None, None, None, None, None, None, None, None)

FmtM4a128 ==
    RawFormat("140", "m4a", Some("medium"), None, None,
              Some("none"), Some("mp4a.40.2"), None, None, Some(128))

FmtM4a128Dup ==
    RawFormat("140-drc", "m4a", Some("medium, drc"), None, None,
              Some("none"), Some("mp4a.40.2"), None, None, Some(128))

FmtM4aNoAbr ==
    RawFormat("139", "m4a", None, None, None,
              Some("none"), Some("mp4a.40.5"), None, None, None)

\* a storyboard: neither a video nor an audio codec
FmtStoryboard ==
    RawFormat("sb0", "mhtml", Some("storyboard"), Some(90), Some(160),
              Some("none"), Some("none"), None, None, None)

FormatPool ==
    {FmtMuxed4K, FmtSbsHdr, FmtAv1, FmtAv1Twin, FmtAv1Low, FmtBare,
     FmtM4a128, FmtM4a128Dup, FmtM4aNoAbr, FmtStoryboard}

\* PadLen video descriptors with pairwise different heights, video-only and
\* muxed in turn
Pad ==
    [i \in 1..PadLen |->
        RawFormat("p" \o ToString(i), "mp4", Some(""), Some(100 + 20 * i),
                  Some(200 + 40 * i), Some("avc1.4d401e"),
                  IF i % 2 = 0 THEN Some("mp4a.40.2") ELSE Some("none"),
                  Some(30), Some(100 + i), IF i % 2 = 0 THEN Some(96) ELSE None)]

\* AudioPadLen audio descriptors: every bitrate occurs in two containers
AudioPad ==
    [i \in 1..AudioPadLen |->
        RawFormat("a" \o ToString(i), IF i % 2 = 0 THEN "webm" ELSE "m4a",
                  Some(""), None, None, Some("none"),
                  IF i % 2 = 0 THEN Some("opus") ELSE Some("mp4a.40.2"),
                  None, None, Some(32 + 8 * ((i + 1) \div 2)))]

Injective(s) == \A i, j \in 1..Len(s) : s[i] = s[j] => i = j

ListsUpTo(n) ==
    {s \in UNION {[1..k -> FormatPool] : k \in 0..n} : Injective(s)}

Info(title, description) == Some([title |-> title, description |-> description])

InfoScenario == Info(Some("Epic 3D 180 VR Tour"), None)

InfoPool ==
    {InfoScenario,
     Info(Some("Holiday clip"), Some("Nothing special")),
     Info(Some("360 Video"), Some("Shot in 3D")),
     Info(None, None)}

\* the metadata fetched together with the long video lists
PadInfos == {InfoScenario, Info(Some("Holiday clip"), Some("Nothing special"))}

\* what a fetch can return: the metadata and the list of raw descriptors
FetchResults ==
    (InfoPool \X (ListsUpTo(MaxFormats)
                     \cup {AudioPad \o s : s \in ListsUpTo(MaxAudioTail)}))
        \cup (PadInfos \X {Pad \o s : s \in ListsUpTo(MaxTail)})

MaxRunFormats == 2

\* format_note holds None
FmtNullNote ==
    RawFormat("18", "mp4", Null, Some(360), Some(640),
              Some("avc1.42001E"), Some("mp4a.40.2"), Some(30), None, Some(96))

\* video only, vcodec holds None
FmtNullVcodec ==
    RawFormat("hls-720", "mp4", Some(""), Some(720), Some(1280),
              Null, Some("none"), Some(30), None, None)

\* muxed, acodec holds None
FmtNullAcodec ==
    RawFormat("http-480", "mp4", Some(""), Some(480), Some(854),
              Some("avc1.4d401e"), Null, Some(30), None, None)

\* video only in a mkv container; resolution holds None and there is no height
FmtMkvNullResolution ==
    [RawFormat("mkv-src", "mkv", Some("source"), None, None,
               Some("vp8"), Some("none"), None, None, None)
        EXCEPT !.resolution = Null]

RunPool ==
    {FmtMuxed4K, FmtSbsHdr, FmtAv1, FmtM4a128,
     FmtNullNote, FmtNullVcodec, FmtNullAcodec, FmtMkvNullResolution}

\* '3d' in the title only and '180' in the description only
InfoSplit == Info(Some("3D concert"), Some("Filmed for 180 headsets"))

\* the description holds None
InfoNullDescription == Info(Some("Holiday clip"), Null)

RunInfos ==
    {InfoScenario, Info(Some("Holiday clip"), Some("Nothing special")),
     InfoSplit, InfoNullDescription}

\* what a fetch can return in the session with prompts
RunResults ==
    RunInfos \X {s \in UNION {[1..k -> RunPool] : k \in 0..MaxRunFormats} : Injective(s)}

\* texts typed at the choice prompt when there are n options
ChoiceTexts(n) ==
    {"", "abc", "2.5", "0", " 1 ", "+1", "-1"} \cup {ToString(k) : k \in 1..(n + 1)}

\* texts typed at the confirmation prompt
ConfirmTexts == {"", "Yes", "n", "ok"}

\* texts typed at "Download another video?"
AgainTexts == {"", "y", "n", "No"}

\* descriptors for the get_enhanced_resolution_info harness
HeightPool ==
    {None, Some(0), Some(700), Some(719), Some(720), Some(1079), Some(1080),
     Some(1439), Some(1440), Some(2159), Some(2160), Some(4319), Some(4320)}

WidthPool == {None, Some(0), Some(3840)}

ResolutionPool == {None, Null, Some("640x360")}

ResolutionFormats ==
    {[RawFormat("22", "mp4", Some(""), h, w, Some("avc1.64001F"), Some("none"),
                None, None, None) EXCEPT !.resolution = r] :
        h \in HeightPool, w \in WidthPool, r \in ResolutionPool}

\* texts for the detect_video_type harness
TitlePool ==
    {"", "Epic 3D 180 VR Tour", "Holiday clip", "SBS concert",
     "Stereoscopic top-bottom", "Anaglyph side by side", "Equirectangular",
     "Hemispherical view", "360 Virtual Reality", "VR180 dual fisheye",
     "HDR10+ demo", "half sphere"}

DescriptionPool == {"", "Shot in 3D", "sbs 180", "spherical", "top bottom anaglyph"}

NotePool == {"", "HDR", "sbs", "1080p", "Equirectangular", "180", "Dolby Vision TB-3D"}

FormatIdPool == {"137", "hdr-303"}

DetectFormats ==
    {RawFormat(id, "mp4", Some(note), h, None, Some("vp9"), Some("none"), None, None, None) :
        id \in FormatIdPool, note \in NotePool, h \in {None, Some(1080)}}

DetectInfos ==
    {None} \cup {Info(Some(t), Some(d)) : t \in TitlePool, d \in DescriptionPool}

-----------------------------------------------------------------------------
(* run(): fetch, build the option list, choose, confirm, download *)

\* the locals of one iteration of the loop, before they are assigned
NoLists ==
    /\ info' = None
    /\ formats' = <<>>
    /\ video_formats' = <<>>
    /\ audio_formats' = <<>>
    /\ in_video' = <<>>
    /\ in_audio' = <<>>
    /\ options' = <<>>
    /\ video_lines' = <<>>

SessionInit ==
    /\ pc = "url"
    /\ info = None
    /\ formats = <<>>
    /\ video_formats = <<>>
    /\ audio_formats = <<>>
    /\ in_video = <<>>
    /\ in_audio = <<>>
    /\ options = <<>>
    /\ video_lines = <<>>
    /\ error = ""
    /\ choice = ""
    /\ selected_option = None
    /\ download_opts = None
    /\ confirm = ""

DetectIdle ==
    /\ d_pc = "idle"
    /\ d_fmt = FmtBare
    /\ d_info = None
    /\ video_type = <<>>
    /\ d_key = <<0, 0, 0, 0>>
    /\ d_res = None

Init == SessionInit /\ DetectIdle

\* the prompts of one iteration, before anything was typed
NoPrompts ==
    /\ choice' = ""
    /\ selected_option' = None
    /\ download_opts' = None
    /\ confirm' = ""

\* run(): url = self.get_url_from_user(), a new iteration of the loop
GetUrl ==
    /\ pc = "url"
    /\ pc' = "fetching"
    /\ NoPrompts
    /\ error' = ""
    /\ UNCHANGED list_vars
    /\ UNCHANGED detect_vars

\* info, video_formats, audio_formats = self.get_video_info(url), for a URL
\* whose extract_info result is res
Fetched(res) ==
    \E r \in {get_video_info(res[1], res[2])} :
        /\ info' = r.info
        /\ formats' = res[2]
        /\ video_formats' = r.video_formats
        /\ audio_formats' = r.audio_formats
        /\ error' = r.error
        /\ in_video' = <<>>
        /\ in_audio' = <<>>
        /\ options' = <<>>
        /\ video_lines' = <<>>

\* get_video_info when extract_info returns metadata with formats
FetchOk ==
    /\ pc = "fetching"
    /\ \E res \in FetchResults : Fetched(res)
    /\ pc' = "fetched"
    /\ UNCHANGED prompt_vars
    /\ UNCHANGED detect_vars

\* the same in the session with prompts
FetchRun ==
    /\ pc = "fetching"
    /\ \E res \in RunResults : Fetched(res)
    /\ pc' = "fetched"
    /\ UNCHANGED prompt_vars
    /\ UNCHANGED detect_vars

\* get_video_info when extract_info returns nothing or raises DownloadError
FetchFail ==
    /\ pc = "fetching"
    /\ NoLists
    /\ pc' = "fetched"
    /\ UNCHANGED <<error, prompt_vars>>
    /\ UNCHANGED detect_vars

\* run(): `if not info: continue`; the locals of the iteration are dead
NoInfo ==
    /\ pc = "fetched"
    /\ info = None
    /\ pc' = "url"
    /\ NoLists
    /\ UNCHANGED <<error, prompt_vars>>
    /\ UNCHANGED detect_vars

\* run(): options = self.display_format_options(video_formats, audio_formats, info);
\* an exception leaves the iteration through `except Exception` of run
DisplayFormatOptions ==
    /\ pc = "fetched"
    /\ info # None
    /\ \E r \in {display_format_options(video_formats, audio_formats, info)} :
           IF r.error = ""
           THEN /\ options' = r.options
                /\ video_formats' = r.video_formats
                /\ audio_formats' = r.audio_formats
                /\ video_lines' = r.video_lines
                /\ in_video' = video_formats
                /\ in_audio' = audio_formats
                /\ pc' = "options"
                /\ UNCHANGED <<info, formats, error>>
           ELSE /\ NoLists
                /\ error' = r.error
                /\ pc' = "url"
    /\ UNCHANGED prompt_vars
    /\ UNCHANGED detect_vars

\* get_user_choice: an entry that is not returned, the prompt comes again
Reprompt ==
    /\ pc = "options"
    /\ \E text \in ChoiceTexts(Len(options)) :
          /\ get_user_choice(text, Len(options)) = None
          /\ choice' = text
    /\ UNCHANGED <<pc, list_vars, error, selected_option, download_opts, confirm>>
    /\ UNCHANGED detect_vars

\* run(): choice 0, `continue`; the locals of the iteration are dead
Cancel ==
    /\ pc = "options"
    /\ \E text \in ChoiceTexts(Len(options)) :
          /\ get_user_choice(text, Len(options)) = Some(0)
          /\ choice' = text
    /\ pc' = "url"
    /\ NoLists
    /\ UNCHANGED <<error, selected_option, download_opts, confirm>>
    /\ UNCHANGED detect_vars

\* run(): a choice from 1 to len(options); selected_option and download_opts
Choose ==
    /\ pc = "options"
    /\ \E text \in ChoiceTexts(Len(options)) :
          LET choice_num == get_user_choice(text, Len(options))
          IN  /\ choice_num # None
              /\ choice_num # Some(0)
              /\ choice' = text
              /\ selected_option' = Some(options[choice_num[1]])
              /\ download_opts' = Some(create_download_options(options[choice_num[1]]))
    /\ pc' = "confirm"
    /\ UNCHANGED <<list_vars, error, confirm>>
    /\ UNCHANGED detect_vars

\* run(): the confirmation prompt; anything but '', 'y', 'yes' ends the iteration
Confirm ==
    /\ pc = "confirm"
    /\ \E text \in ConfirmTexts :
          /\ confirm' = text
          /\ IF IsConfirmed(text)
             THEN /\ pc' = "download"
                  /\ UNCHANGED <<list_vars, choice, selected_option, download_opts>>
             ELSE /\ pc' = "url"
                  /\ NoLists
                  /\ choice' = ""
                  /\ selected_option' = None
                  /\ download_opts' = None
    /\ UNCHANGED error
    /\ UNCHANGED detect_vars

\* download_video returns True
DownloadOk ==
    /\ pc = "download"
    /\ pc' = "again"
    /\ UNCHANGED <<list_vars, error, prompt_vars>>
    /\ UNCHANGED detect_vars

\* download_video returns False: the next iteration
DownloadFail ==
    /\ pc = "download"
    /\ pc' = "url"
    /\ NoLists
    /\ NoPrompts
    /\ UNCHANGED error
    /\ UNCHANGED detect_vars

\* run(): "Download another video?": 'n' or 'no' leaves the loop
Again ==
    /\ pc = "again"
    /\ \E text \in AgainTexts :
          pc' = IF Lower(Strip(text)) \in {"n", "no"} THEN "exit" ELSE "url"
    /\ NoLists
    /\ NoPrompts
    /\ UNCHANGED error
    /\ UNCHANGED detect_vars

\* fetch and list for the wide range of extract_info results; every choice
\* is the cancel
Next ==
    \/ GetUrl
    \/ FetchOk
    \/ FetchFail
    \/ NoInfo
    \/ DisplayFormatOptions
    \/ Cancel

Spec == Init /\ [][Next]_vars

\* the whole loop of run()
NextRun ==
    \/ GetUrl
    \/ FetchRun
    \/ FetchFail
    \/ NoInfo
    \/ DisplayFormatOptions
    \/ Reprompt
    \/ Cancel
    \/ Choose
    \/ Confirm
    \/ DownloadOk
    \/ DownloadFail
    \/ Again

SpecRun == Init /\ [][NextRun]_vars

-----------------------------------------------------------------------------
(* Harness for the pure functions detect_video_type, sort_key and
   get_enhanced_resolution_info *)

InitDetect ==
    /\ SessionInit
    /\ d_pc = "start"
    /\ \/ d_fmt \in DetectFormats /\ d_info \in DetectInfos
       \/ d_fmt \in ResolutionFormats /\ d_info = None
    /\ video_type = <<>>
    /\ d_key = <<0, 0, 0, 0>>
    /\ d_res = None

DetectVideoType ==
    /\ d_pc = "start"
    /\ video_type' = detect_video_type(d_fmt, d_info)
    /\ d_pc' = "detected"
    /\ UNCHANGED <<d_fmt, d_info, d_key, d_res>>
    /\ UNCHANGED session_vars

SortKey ==
    /\ d_pc = "detected"
    /\ d_key' = sort_key(VideoOnlyEntry(d_fmt, video_type))
    /\ d_pc' = "keyed"
    /\ UNCHANGED <<d_fmt, d_info, video_type, d_res>>
    /\ UNCHANGED session_vars

ResolutionInfo ==
    /\ d_pc = "keyed"
    /\ d_res' = get_enhanced_resolution_info(d_fmt)
    /\ d_pc' = "shown"
    /\ UNCHANGED <<d_fmt, d_info, video_type, d_key>>
    /\ UNCHANGED session_vars

NextDetect ==
    \/ DetectVideoType
    \/ SortKey
    \/ ResolutionInfo

SpecDetect == InitDetect /\ [][NextDetect]_vars

-----------------------------------------------------------------------------
(* Properties of the option list *)

VrSpecialTypes == {"3d_180_sbs_video", "vr_360_video", "vr_180_video", "3d_video"}

QuickTypes == {"quick_video_mkv", "quick_video_mp4", "quick_audio"}

\* 1 VR-special, 2 quick, 3 ranked audio, 4 ranked video
SectionOf(opt) ==
    IF opt.type \in VrSpecialTypes THEN 1
    ELSE IF opt.type \in QuickTypes THEN 2
    ELSE IF opt.type = "audio" THEN 3
    ELSE 4

RankedAudio == SelectSeq(options, LAMBDA opt : opt.type = "audio")

RankedVideo == SelectSeq(options, LAMBDA opt : opt.type = "video")

Prefix10(text) == SubSeq(text, 1, IF Len(text) < 10 THEN Len(text) ELSE 10)

\* the dedup key of a video descriptor as a tuple of its fields
VideoKeyFields(fmt) ==
    <<fmt.ext, fmt.height, fmt.fps, Prefix10(fmt.vcodec[1]), fmt.video_types>>

\* the dedup key of an audio descriptor as a tuple of its fields
AudioKeyFields(fmt) == <<fmt.ext, fmt.abr>>

\* the ranking tuple of a video descriptor, absent numbers counting as 0
RankingFields(fmt) ==
    <<special_priority(fmt.video_types),
      IF fmt.height = None THEN 0 ELSE fmt.height[1],
      IF fmt.fps = None THEN 0 ELSE fmt.fps[1],
      IF fmt.vbr = None THEN 0 ELSE fmt.vbr[1]>>

\* C1: the i-th entry of the option list has ordinal i, so the ordinals are
\* exactly 1..N in list order, without gaps or repeats.
OrdinalsAreOneToN ==
    \A i \in 1..Len(options) : options[i].num = i

\* a list with VR-special, quick, ranked audio and ranked video entries whose
\* buckets held duplicates of a dedup key
OrdinalsWitness ==
    /\ pc = "options"
    /\ \E i \in 1..Len(options) : options[i].type = "3d_180_sbs_video"
    /\ RankedAudio # <<>>
    /\ RankedVideo # <<>>
    /\ Len(RankedAudio) < Len(in_audio)

\* C2: the entries are grouped VR-special, quick, ranked audio, ranked video
\* in that order; VR-special entries occur only when the VR heuristic fires;
\* the quick entries are always MKV video, MP4 video, MP3 audio in that order.
SectionsInFixedOrder ==
    pc = "options" =>
        /\ \A i, j \in 1..Len(options) :
              i < j => SectionOf(options[i]) <= SectionOf(options[j])
        /\ LET quick == SelectSeq(options, LAMBDA opt : SectionOf(opt) = 2)
           IN  /\ Len(quick) = 3
               /\ quick[1].type = "quick_video_mkv" /\ quick[1].ext = "mkv"
               /\ quick[2].type = "quick_video_mp4" /\ quick[2].ext = "mp4"
               /\ quick[3].type = "quick_audio" /\ quick[3].ext = "mp3"
        /\ (\E i \in 1..Len(options) : SectionOf(options[i]) = 1)
              <=> is_vr_content(info)

\* a list in which all four sections are present
SectionsWitness ==
    /\ pc = "options"
    /\ \A k \in 1..4 : \E i \in 1..Len(options) : SectionOf(options[i]) = k

\* C3: no two ranked video options share (ext, height, fps, first 10
\* characters of the video codec, tags), no two ranked audio options share
\* (ext, bitrate), and there are at most 20 ranked video options.
DedupKeysUnique ==
    pc = "options" =>
        /\ \A i, j \in 1..Len(RankedVideo) :
              VideoKeyFields(RankedVideo[i].info) = VideoKeyFields(RankedVideo[j].info)
                  => i = j
        /\ \A i, j \in 1..Len(RankedAudio) :
              AudioKeyFields(RankedAudio[i].info) = AudioKeyFields(RankedAudio[j].info)
                  => i = j
        /\ Len(RankedVideo) <= 20

\* the video bucket holds two descriptors with one dedup key and more than
\* 20 different keys, and 20 video options came out
DedupWitness ==
    /\ pc = "options"
    /\ Len(RankedVideo) = 20
    /\ Cardinality({VideoKeyFields(in_video[i]) : i \in 1..Len(in_video)}) > 20
    /\ \E i, j \in 1..Len(in_video) :
          i # j /\ VideoKeyFields(in_video[i]) = VideoKeyFields(in_video[j])

\* the video bucket in stable descending order of the ranking tuple: the
\* descriptor of rank r is the one with r - 1 descriptors before it, those of
\* a greater tuple and those of an equal tuple that come earlier in the bucket
StablyRanked(bucket) ==
    LET n    == Len(bucket)
        keys == [i \in 1..n |-> RankingFields(bucket[i])] \o <<>>
        rank == [i \in 1..n |->
                    1 + Cardinality({j \in 1..n :
                            \/ TupleGT(keys[j], keys[i])
                            \/ keys[j] = keys[i] /\ j < i})] \o <<>>
    IN  [r \in 1..n |-> bucket[CHOOSE i \in 1..n : rank[i] = r]] \o <<>>

\* first occurrence of each dedup key
FirstOfEachKey(ranked) ==
    LET keys   == [r \in 1..Len(ranked) |-> VideoKeyFields(ranked[r])] \o <<>>
        firsts == SelectSeq([r \in 1..Len(ranked) |-> r],
                     LAMBDA r : \A q \in 1..(r - 1) : keys[q] # keys[r])
    IN  [k \in 1..Len(firsts) |-> ranked[firsts[k]]] \o <<>>

First20(s) == SubSeq(s, 1, IF Len(s) < 20 THEN Len(s) ELSE 20)

\* C4: the ranked video options are the first 20 entries of the video bucket
\* stably sorted in descending order of (special_priority, height, fps, vbr)
\* and reduced to the first occurrence of each dedup key; of two descriptors
\* equal in every ranking and dedup-key field only the earlier one survives.
VideoRankingIsStableSortDedupCap ==
    pc = "options" =>
        /\ [k \in 1..Len(RankedVideo) |-> RankedVideo[k].info]
              = First20(FirstOfEachKey(StablyRanked(in_video)))
        /\ \A i, j \in 1..Len(in_video) :
              (/\ i < j
               /\ RankingFields(in_video[i]) = RankingFields(in_video[j])
               /\ VideoKeyFields(in_video[i]) = VideoKeyFields(in_video[j]))
                  => \A k \in 1..Len(RankedVideo) : RankedVideo[k].info # in_video[j]

\* the bucket holds two descriptors equal in every ranking and dedup-key
\* field, the sort changed the order of the bucket, and the cap cut the list
VideoRankingWitness ==
    /\ pc = "options"
    /\ video_formats # in_video
    /\ Len(FirstOfEachKey(StablyRanked(in_video))) > 20
    /\ \E i, j \in 1..Len(in_video) :
          /\ i < j
          /\ RankingFields(in_video[i]) = RankingFields(in_video[j])
          /\ VideoKeyFields(in_video[i]) = VideoKeyFields(in_video[j])

-----------------------------------------------------------------------------
(* Properties of detect_video_type and sort_key *)

StereoFamily == {"3D", "SBS-3D", "TB-3D", "Anaglyph-3D", "DualFisheye-3D"}

\* the priority table: first matching row
TablePriority(types) ==
    LET has(tag) == \E i \in 1..Len(types) : types[i] = tag
    IN  IF has("SBS-3D") /\ has("180°") THEN 2000
        ELSE IF has("3D-180°-VR") THEN 1800
        ELSE IF has("SBS-3D") THEN 1500
        ELSE IF has("HDR") THEN 1000
        ELSE IF has("360°") \/ has("VR") \/ has("360°-EQR") THEN 500
        ELSE IF \E tag \in StereoFamily : has(tag) THEN 300
        ELSE IF has("180°") THEN 200
        ELSE 0

\* C5: special_priority is the value of the first matching row of the table;
\* a descriptor whose only tag is '360°-EQR' gets 500.
SpecialPriorityFollowsTable ==
    d_pc = "keyed" => d_key[1] = TablePriority(video_type)

\* the three texts detect_video_type scans for stereoscopic, VR and 180 words
ScannedTexts ==
    {Lower(Get(d_fmt.format_note, ""))}
        \cup (IF d_info = None THEN {}
              ELSE {Lower(Get(d_info[1].title, "")),
                    Lower(Get(d_info[1].description, ""))})

Evidence(keyword) == \E text \in ScannedTexts : Contains(keyword, text)

\* the fixed keyword list of the stereoscopic scan with the tag of each
StereoList ==
    <<"3d", "stereoscopic", "stereo", "sbs", "side by side", "side-by-side",
      "top bottom", "top-bottom", "anaglyph", "dual fisheye">>

StereoTagOf(keyword) ==
    IF keyword \in {"3d", "stereoscopic", "stereo"} THEN "3D"
    ELSE IF keyword \in {"sbs", "side by side", "side-by-side"} THEN "SBS-3D"
    ELSE IF keyword \in {"top bottom", "top-bottom"} THEN "TB-3D"
    ELSE IF keyword = "anaglyph" THEN "Anaglyph-3D"
    ELSE "DualFisheye-3D"

StereoEvidence == \E k \in 1..Len(StereoList) : Evidence(StereoList[k])

Evidence180 == \E keyword \in {"180", "vr180", "half sphere", "hemispherical"} : Evidence(keyword)

HdrEvidence ==
    \E keyword \in {"hdr", "hdr10", "hdr10+", "dolby vision", "high dynamic range",
                    "rec2020", "bt2020"} :
        \/ Contains(keyword, Lower(Get(d_fmt.format_note, "")))
        \/ Contains(keyword, Lower(d_fmt.format_id))

\* the independent tags the texts give evidence for
IndependentDetected ==
    (IF Evidence("360") \/ Evidence("spherical") THEN {"360°"} ELSE {})
        \cup (IF Evidence("vr") \/ Evidence("virtual reality") THEN {"VR"} ELSE {})
        \cup (IF Evidence("equirectangular") THEN {"360°-EQR"} ELSE {})
        \cup (IF HdrEvidence THEN {"HDR"} ELSE {})

\* C6: with a stereoscopic keyword and a 180 keyword in the scanned texts the
\* result holds '3D-180°-VR' exactly once, no stereoscopic tag, no '180°',
\* and every independent tag detected; otherwise it does not hold
\* '3D-180°-VR'.
CombinedTagRule ==
    d_pc # "start" =>
        IF StereoEvidence /\ Evidence180
        THEN /\ Cardinality({i \in 1..Len(video_type) : video_type[i] = "3D-180°-VR"}) = 1
             /\ Range(video_type) \cap StereoFamily = {}
             /\ "180°" \notin Range(video_type)
             /\ IndependentDetected \subseteq Range(video_type)
        ELSE "3D-180°-VR" \notin Range(video_type)

\* a combined result that kept an HDR tag and a VR tag
CombinedTagWitness ==
    /\ d_pc = "detected"
    /\ StereoEvidence /\ Evidence180
    /\ {"3D-180°-VR", "VR", "HDR"} \subseteq Range(video_type)

\* C7: the result holds at most one stereoscopic tag and no tag twice; a
\* stereoscopic tag in it is the tag of the earliest keyword of the list that
\* occurs in any of the three texts, and that tag is in the result unless
\* 180 evidence folds it into '3D-180°-VR'.
OneStereoTagEarliestKeyword ==
    d_pc # "start" =>
        /\ Cardinality(Range(video_type) \cap StereoFamily) <= 1
        /\ Cardinality(Range(video_type)) = Len(video_type)
        /\ IF StereoEvidence
           THEN LET first == CHOOSE k \in 1..Len(StereoList) :
                                /\ Evidence(StereoList[k])
                                /\ \A j \in 1..(k - 1) : ~Evidence(StereoList[j])
                    tag == StereoTagOf(StereoList[first])
                IN  /\ Range(video_type) \cap StereoFamily \subseteq {tag}
                    /\ ~Evidence180 => tag \in Range(video_type)
           ELSE Range(video_type) \cap StereoFamily = {}

\* 'sbs' in the format note, '3d' only in the title or description: the tag
\* is '3D'
EarliestKeywordWitness ==
    /\ d_pc = "detected"
    /\ Contains("sbs", Lower(Get(d_fmt.format_note, "")))
    /\ ~Contains("3d", Lower(Get(d_fmt.format_note, "")))
    /\ Evidence("3d")
    /\ "3D" \in Range(video_type)

-----------------------------------------------------------------------------
(* Properties of the buckets and of the audio ranking *)

VideoCodecPresent(fmt) == fmt.vcodec # Some("none")

AudioCodecPresent(fmt) == fmt.acodec # Some("none")

IdsOf(s) == [i \in 1..Len(s) |-> s[i].format_id]

\* C8: each descriptor goes to exactly one place by its codecs ('none' is
\* absent): both -> video bucket as 'video+audio'; video only -> video bucket
\* as 'video_only'; audio only -> audio bucket; neither -> dropped.  No
\* descriptor is in both buckets or twice, and input order is kept.
BucketingByCodecs ==
    (pc = "fetched" /\ info # None) =>
        LET videos == SelectSeq(formats, VideoCodecPresent)
            audios == SelectSeq(formats,
                          LAMBDA fmt : ~VideoCodecPresent(fmt) /\ AudioCodecPresent(fmt))
            all    == IdsOf(video_formats) \o IdsOf(audio_formats)
        IN  /\ IdsOf(video_formats) = IdsOf(videos)
            /\ IdsOf(audio_formats) = IdsOf(audios)
            /\ \A k \in 1..Len(video_formats) :
                  video_formats[k].type =
                      IF AudioCodecPresent(videos[k]) THEN "video+audio" ELSE "video_only"
            /\ \A k \in 1..Len(audio_formats) : audio_formats[k].type = "audio"
            /\ \A i, j \in 1..Len(all) : all[i] = all[j] => i = j
            /\ \A i \in 1..Len(formats) :
                  (~VideoCodecPresent(formats[i]) /\ ~AudioCodecPresent(formats[i]))
                      => formats[i].format_id \notin Range(all)

\* a fetch whose list holds a muxed, a video-only, an audio-only and a
\* codec-less descriptor
BucketingWitness ==
    /\ pc = "fetched"
    /\ \E i \in 1..Len(formats) : VideoCodecPresent(formats[i]) /\ AudioCodecPresent(formats[i])
    /\ \E i \in 1..Len(formats) : VideoCodecPresent(formats[i]) /\ ~AudioCodecPresent(formats[i])
    /\ \E i \in 1..Len(formats) : ~VideoCodecPresent(formats[i]) /\ AudioCodecPresent(formats[i])
    /\ \E i \in 1..Len(formats) : ~VideoCodecPresent(formats[i]) /\ ~AudioCodecPresent(formats[i])

BitrateOf(fmt) == IF fmt.abr = None THEN 0 ELSE fmt.abr[1]

PositionIn(s, x) == CHOOSE k \in 1..Len(s) : s[k] = x

\* C9: the ranked audio options are in non-increasing order of bitrate (absent
\* counting as 0), options of equal bitrate keep the order of the input
\* bucket, and every dedup key of the bucket yields an option (no cap).
AudioRankingStableDescending ==
    pc = "options" =>
        /\ \A i, j \in 1..Len(RankedAudio) :
              i < j =>
                 /\ BitrateOf(RankedAudio[i].info) >= BitrateOf(RankedAudio[j].info)
                 /\ BitrateOf(RankedAudio[i].info) = BitrateOf(RankedAudio[j].info)
                       => PositionIn(in_audio, RankedAudio[i].info)
                              < PositionIn(in_audio, RankedAudio[j].info)
        /\ Len(RankedAudio)
              = Cardinality({AudioKeyFields(in_audio[k]) : k \in 1..Len(in_audio)})

\* more than 20 audio options, two of them of equal bitrate, from a bucket
\* the sort had to reorder
AudioRankingWitness ==
    /\ pc = "options"
    /\ Len(RankedAudio) > 20
    /\ audio_formats # in_audio
    /\ \E i, j \in 1..Len(RankedAudio) :
          i < j /\ BitrateOf(RankedAudio[i].info) = BitrateOf(RankedAudio[j].info)

-----------------------------------------------------------------------------
(* The end-to-end scenario *)

\* title 'Epic 3D 180 VR Tour', one muxed 2160p60 vp9/opus descriptor with an
\* empty format note and no width, after the option list was built
ScenarioState ==
    /\ pc = "options"
    /\ info = InfoScenario
    /\ formats = <<FmtMuxed4K>>

\* C10 as stated: the tags are '3D-180°-VR' alone, the descriptor is in the
\* video bucket, the list has the '3D 180° VR' entry and one video entry shown
\* as '4K (...' with the combined tag only.
ScenarioAsClaimed ==
    ScenarioState =>
        /\ Len(in_video) = 1 /\ in_audio = <<>>
        /\ in_video[1].video_types = <<"3D-180°-VR">>
        /\ \E i \in 1..Len(options) : options[i].type = "3d_180_sbs_video"
        /\ Len(RankedVideo) = 1 /\ Len(video_lines) = 1
        /\ Len(video_lines[1].res_display) >= 4
        /\ SubSeq(video_lines[1].res_display, 1, 4) = "4K ("
        /\ video_lines[1].special_display = " 3D-180°-VR"

\* C10 amended: the tags are '3D-180°-VR' followed by 'VR' (the title holds
\* 'vr'), the descriptor is in the video bucket as muxed, the list has the
\* '3D 180° VR' entry first and one video entry, shown with the resolution
\* fallback 'unknown' (no width) and with both tags.
ScenarioAmended ==
    ScenarioState =>
        /\ Len(in_video) = 1 /\ in_audio = <<>>
        /\ in_video[1].type = "video+audio"
        /\ in_video[1].video_types = <<"3D-180°-VR", "VR">>
        /\ options[1].type = "3d_180_sbs_video"
        /\ options[1].description = "Best 3D 180° VR (Side-by-Side MKV)"
        /\ Len(RankedVideo) = 1 /\ Len(video_lines) = 1
        /\ RankedVideo[1].info = in_video[1]
        /\ video_lines[1].num = RankedVideo[1].num
        /\ video_lines[1].res_display = "unknown"
        /\ video_lines[1].special_display = " 3D-180°-VR VR"

ScenarioWitness ==
    /\ ScenarioState
    /\ Len(options) = 8
    /\ options[8].type = "video"

-----------------------------------------------------------------------------
(* Properties of get_enhanced_resolution_info *)

\* the tier named by the first threshold the height reaches
TierOf(h) ==
    IF h >= 4320 THEN "8K"
    ELSE IF h >= 2160 THEN "4K"
    ELSE IF h >= 1440 THEN "2K"
    ELSE IF h >= 1080 THEN "1080p"
    ELSE IF h >= 720 THEN "720p"
    ELSE ToString(h) \o "p"

\* C11: with height and width both present the result is
\* '{tier} ({width}x{height})'; otherwise it is the descriptor's own resolution
\* marker, or 'Unknown resolution' if the descriptor has none.
ResolutionDisplayAsClaimed ==
    d_pc = "shown" =>
        IF d_fmt.height # None /\ d_fmt.width # None
        THEN d_res = Some(TierOf(d_fmt.height[1]) \o " (" \o ToString(d_fmt.width[1])
                          \o "x" \o ToString(d_fmt.height[1]) \o ")")
        ELSE IF d_fmt.resolution \in {None, Null}
        THEN d_res = Some("Unknown resolution")
        ELSE d_res = d_fmt.resolution

-----------------------------------------------------------------------------
(* Properties of the session loop *)

\* a descriptor of formats that carries a video or an audio codec
HasCodec(fmt) == VideoCodecPresent(fmt) \/ AudioCodecPresent(fmt)

\* C12: detection, bucketing, ranking and list building never end in an error
\* for an absent or null optional field; the fallbacks are in place ('unknown'
\* for a missing codec or resolution) and only the descriptors without any
\* codec are left out of the buckets.
MissingInputNeverFails ==
    /\ error = ""
    /\ \A i \in 1..Len(video_formats) :
          /\ video_formats[i].resolution # Null
          /\ video_formats[i].vcodec # Null
          /\ video_formats[i].type = "video+audio" => video_formats[i].acodec # Null
    /\ \A i \in 1..Len(audio_formats) : audio_formats[i].acodec # Null
    /\ pc = "fetched" =>
          Range(IdsOf(video_formats)) \cup Range(IdsOf(audio_formats))
              = {formats[i].format_id : i \in {j \in 1..Len(formats) : HasCodec(formats[j])}}

\* the option the user chose, once the choice prompt has returned it
Selected == selected_option[1]

AfterChoice == pc \in {"confirm", "download", "again"}

\* C13: VR-special options appear only with a VR indicator in the title or
\* the description; each carries 'bestvideo+bestaudio/best' and mkv, in its
\* list entry and in the download options built when it is selected.
VrSpecialOptionsUseMkv ==
    /\ pc = "options" =>
          \A i \in 1..Len(options) :
              options[i].type \in VrSpecialTypes =>
                  /\ is_vr_content(info)
                  /\ options[i].format = "bestvideo+bestaudio/best"
                  /\ options[i].ext = "mkv"
    /\ AfterChoice /\ Selected.type \in VrSpecialTypes =>
          /\ download_opts[1].format = "bestvideo+bestaudio/best"
          /\ download_opts[1].merge_output_format = Some("mkv")

\* C14: for a ranked option the selector is built from the descriptor's own
\* format id: the id alone and no merge container for an audio or a muxed
\* option; '{id}+bestaudio/best' with merge container mkv (source extension
\* webm or mkv) or mp4 (any other) for a video-only option.
RankedSelectorFromFormatId ==
    AfterChoice /\ Selected.type \in {"audio", "video"} =>
        LET src == Selected.info
        IN  /\ \E i \in 1..Len(formats) :
                  formats[i].format_id = src.format_id /\ formats[i].ext = src.ext
            /\ IF src.type = "video_only"
               THEN /\ download_opts[1].format = src.format_id \o "+bestaudio/best"
                    /\ download_opts[1].merge_output_format =
                          Some(IF src.ext = "webm" \/ src.ext = "mkv" THEN "mkv" ELSE "mp4")
               ELSE /\ src.type \in {"audio", "video+audio"}
                    /\ download_opts[1].format = src.format_id
                    /\ download_opts[1].merge_output_format = None

\* a video-only webm descriptor was selected and confirmed, out of a list
\* that holds a muxed descriptor too
RankedSelectorWitness ==
    /\ pc = "download"
    /\ Selected.type = "video"
    /\ Selected.info.type = "video_only"
    /\ Selected.info.ext = "webm"
    /\ download_opts[1].merge_output_format = Some("mkv")
    /\ \E i \in 1..Len(options) :
          options[i].type = "video" /\ options[i].info.type = "video+audio"

\* the title and the description as the program lower-cases them
MetaTexts == {TitleOf(info), DescriptionOf(info)}

\* C15: with a VR indicator, the '3D 180° VR side-by-side' option is emitted
\* exactly when title and description together contain '3d' and '180', or
\* side-by-side evidence is in the title, the description or the descriptors;
\* it is then the first entry, followed by 360° VR, 180° VR, 3D stereoscopic.
SbsOptionOnJointEvidence ==
    pc = "options" /\ is_vr_content(info) =>
        LET joint == /\ \E text \in MetaTexts : Contains("3d", text)
                     /\ \E text \in MetaTexts : Contains("180", text)
            sbs   == \E text \in MetaTexts \cup {StrOfFormats(in_video)} : SbsIn(text)
            first == IF joint \/ sbs THEN <<"3d_180_sbs_video">> ELSE <<>>
            types == first \o <<"vr_360_video", "vr_180_video", "3d_video">>
        IN  /\ Len(options) >= Len(types)
            /\ \A i \in 1..Len(types) : options[i].type = types[i]
            /\ \A i \in (Len(types) + 1)..Len(options) : options[i].type \notin VrSpecialTypes

\* what was typed at the choice prompt, as a number (None: not a number)
Typed(text) == ParseInt(Strip(text))

Affirmative(text) == Lower(Strip(text)) \in {"", "y", "yes"}

\* one step of the session, as C16 describes it
SessionStep ==
    /\ pc' = "download" /\ pc # "download" =>
          /\ pc = "confirm"
          /\ info # None /\ error = ""
          /\ Affirmative(confirm')
          /\ Typed(choice) # None
          /\ Typed(choice)[1] \in 1..Len(options)
          /\ options[Typed(choice)[1]].num = Typed(choice)[1]
          /\ selected_option' = Some(options[Typed(choice)[1]])
          /\ download_opts' = Some(create_download_options(options[Typed(choice)[1]]))
    /\ pc = "options" =>
          \/ /\ pc' = "options"
             /\ Typed(choice') = None \/ Typed(choice')[1] \notin 0..Len(options)
             /\ selected_option' = None
          \/ /\ pc' = "confirm"
             /\ Typed(choice') # None
             /\ Typed(choice')[1] \in 1..Len(options)
             /\ selected_option' = Some(options[Typed(choice')[1]])
          \/ /\ pc' = "url"
             /\ Typed(choice') = Some(0)
             /\ selected_option' = None
    /\ pc = "confirm" =>
          IF Affirmative(confirm') THEN pc' = "download" ELSE pc' = "url"
    /\ pc = "fetched" /\ info = None => pc' = "url"
    /\ pc' = "url" \/ pc = "fetching" => selected_option' = None /\ download_opts' = None

\* C16: a download starts only after a successful fetch, an entry k with
\* 1 <= k <= N and a confirmation, and it is the download of the entry whose
\* ordinal is k; empty, non-numeric and out-of-range entries are re-prompted;
\* 0, a declined confirmation and a failed fetch lead back to the URL prompt
\* without a download.
DownloadOnlyAfterChoiceAndConfirm == [][SessionStep]_vars

\* a ranked option beyond the quick options is being downloaded, chosen by a
\* padded entry and confirmed in capitals
DownloadWitness ==
    /\ pc = "download"
    /\ Typed(choice)[1] > 3
    /\ Selected.num = Typed(choice)[1]
    /\ confirm = "Yes"
    /\ download_opts[1].format = Selected.format \o "+bestaudio/best"

====
